---- MODULE Spec2Model ----
(***************************************************************************)
(* RandomAnonymizer (anonymization/modules/speaker_embeddings/              *)
(* anonymization/random_anon.py): the lazily loaded scaling ranges, the    *)
(* stats loader, and anonymize_embeddings on its masking and in-scale      *)
(* paths.  Floats are modelled on the integer grid; np.random.uniform and  *)
(* Tensor.random_ are nondeterministic choices over their ranges.          *)
(***************************************************************************)
EXTENDS Integers, Sequences, FiniteSets, TLC

VARIABLES
    ctor,      \* the arguments __init__ was called with: [in_scale, stats_per_dim_path]
    self,      \* the instance: [stats_per_dim_path, _scaling_ranges]
    files,     \* the file system: path -> content
    loads,     \* number of _load_scaling_ranges calls that returned
    opened,    \* the set of paths open() was called on
    loaded,    \* what the first returned load saw: [done, items, ranges]
    ret,       \* the outcome of the call that has just returned ("none": no call)
    tpc,       \* concurrent accessors: thread -> position in scaling_ranges
    tloc,      \* concurrent accessors: thread -> locals [p, res]
    tret       \* concurrent accessors: thread -> outcome [exc, value]

vars == <<ctor, self, files, loads, opened, loaded, ret, tpc, tloc, tret>>

----------------------------------------------------------------------------
(* Bounds and program constants *)

NThreads == 2          \* concurrent accessors

MaskFrom == -40        \* .random_(-40, 40): from, inclusive
MaskTo == 40           \* .random_(-40, 40): to, exclusive

None == "None"
CfgPath == "cfg.json"                 \* a path given to the constructor
DefaultPath == "stats_per_dim.json"   \* Path("stats_per_dim.json")
Paths == {CfgPath, DefaultPath}
Levels == {"spk", "utt"}
Threads == 1..NThreads

----------------------------------------------------------------------------
(* Values of _scaling_ranges: the attribute may not exist at all *)

Unset == [tag |-> "unset", val |-> <<>>]
NoneVal == [tag |-> "None", val |-> <<>>]
ListVal(s) == [tag |-> "list", val |-> s]

\* Python truthiness of the accessor's value: None and [] are false
Truthy(v) == v.tag = "list" /\ Len(v.val) > 0

----------------------------------------------------------------------------
(* Calibration files.  A JSON object is the sequence of its items in file  *)
(* order; a key is its string of decimal digits; a value is a JSON object  *)
(* with some of the fields "min" and "max".                                *)

Item(k, lo, hi) == [key |-> k, v |-> [min |-> lo, max |-> hi]]

Missing == [kind |-> "missing", items |-> <<>>]
Malformed == [kind |-> "malformed", items |-> <<>>]
Json(items) == [kind |-> "json", items |-> items]

NoMaxFile == Json(<<[key |-> <<0>>, v |-> [min |-> 1]]>>)
EmptyFile == Json(<<>>)
\* {"10": {"min":1,"max":2}, "2": {"min":3,"max":4}}
TwoDimFile == Json(<<Item(<<1, 0>>, 1, 2), Item(<<2>>, 3, 4)>>)
\* {"0": {"min":-1,"max":0}}
OneDimFile == Json(<<Item(<<0>>, -1, 0)>>)
\* {"0": {"min":7,"max":7}}
OtherFile == Json(<<Item(<<0>>, 7, 7)>>)

CfgContents == {Missing, Malformed, NoMaxFile, EmptyFile, TwoDimFile, OneDimFile}

RECURSIVE IntOf(_)
\* int(k) of a digit string
IntOf(k) == IF k = <<>> THEN 0 ELSE 10 * IntOf(SubSeq(k, 1, Len(k) - 1)) + k[Len(k)]

RECURSIVE StrLess(_, _)
\* k1 < k2 as Python strings
StrLess(k1, k2) ==
    IF k2 = <<>> THEN FALSE
    ELSE IF k1 = <<>> THEN TRUE
    ELSE IF Head(k1) # Head(k2) THEN Head(k1) < Head(k2)
    ELSE StrLess(Tail(k1), Tail(k2))

RECURSIVE InsertByInt(_, _)
\* x placed after every item whose int(key) is <= int(x.key): sorted() is stable
InsertByInt(s, x) ==
    IF s = <<>> THEN <<x>>
    ELSE IF IntOf(x.key) < IntOf(Head(s).key) THEN <<x>> \o s
    ELSE <<Head(s)>> \o InsertByInt(Tail(s), x)

RECURSIVE InsertByStr(_, _)
InsertByStr(s, x) ==
    IF s = <<>> THEN <<x>>
    ELSE IF StrLess(x.key, Head(s).key) THEN <<x>> \o s
    ELSE <<Head(s)>> \o InsertByStr(Tail(s), x)

RECURSIVE SortedByStr(_)
\* sorted(dim_ranges.items()): by the key as a string
SortedByStr(items) ==
    IF items = <<>> THEN <<>>
    ELSE InsertByStr(SortedByStr(SubSeq(items, 1, Len(items) - 1)), items[Len(items)])

RECURSIVE SortedByInt(_)
\* sorted(dim_ranges.items(), key=lambda x: int(x[0]))
SortedByInt(items) ==
    IF items = <<>> THEN <<>>
    ELSE InsertByInt(SortedByInt(SubSeq(items, 1, Len(items) - 1)), items[Len(items)])

\* [(v["min"], v["max"]) for k, v in <sorted items>]
Ranges(sorted) == [i \in 1..Len(sorted) |-> <<sorted[i].v.min, sorted[i].v.max>>]

\* if stats_per_dim_path is None: stats_per_dim_path = Path("stats_per_dim.json")
LoadPath(p) == IF p = None THEN DefaultPath ELSE p

\* _load_scaling_ranges(stats_per_dim_path) against the file system fs:
\* [exc, val, path] where exc = "" when the call returns val
LoadScalingRanges(fs, p) ==
    LET path == LoadPath(p)
        f == fs[path]
    IN  IF f.kind = "missing"
        THEN [exc |-> "FileNotFoundError", val |-> <<>>, path |-> path]
        ELSE IF f.kind = "malformed"
        THEN [exc |-> "JSONDecodeError", val |-> <<>>, path |-> path]
        ELSE IF \E i \in 1..Len(f.items) : {"min", "max"} \ DOMAIN f.items[i].v # {}
        THEN [exc |-> "KeyError", val |-> <<>>, path |-> path]
        ELSE [exc |-> "", val |-> Ranges(SortedByInt(f.items)), path |-> path]

----------------------------------------------------------------------------
(* The instance *)

\* __init__(device, vec_type, model_name, in_scale, stats_per_dim_path):
\* with in_scale the path is kept and _scaling_ranges is not assigned at all
NewAnonymizer(in_scale, stats_per_dim_path) ==
    IF in_scale
    THEN [stats_per_dim_path |-> stats_per_dim_path, _scaling_ranges |-> Unset]
    ELSE [stats_per_dim_path |-> None, _scaling_ranges |-> NoneVal]

\* the files __init__ opens: none, the path is only stored
OpenedByInit == {}

StoreKeepPath(s, val) == [s EXCEPT !._scaling_ranges = ListVal(val)]
\* self._scaling_ranges = <loaded>; self.stats_per_dim_path = None
StoreAndClear(s, val) == [stats_per_dim_path |-> None, _scaling_ranges |-> ListVal(val)]

FailToMask(s, r) ==
    [self |-> NewAnonymizer(FALSE, None), exc |-> "", value |-> NoneVal,
     opened |-> {r.path}, ok |-> FALSE]
\* an exception raised by the loader leaves the accessor before any assignment
LoadFailed(s, r) ==
    [self |-> s, exc |-> r.exc, value |-> Unset, opened |-> {r.path}, ok |-> FALSE]

\* the scaling_ranges property read on instance s:
\* [self: the instance afterwards, exc, value, opened: paths read, ok: a load returned]
ScalingRangesGet(s, fs) ==
    IF s.stats_per_dim_path # None
    THEN LET r == LoadScalingRanges(fs, s.stats_per_dim_path)
         IN  IF r.exc # ""
             THEN LoadFailed(s, r)
             ELSE LET s2 == StoreAndClear(s, r.val)
                  IN  [self |-> s2, exc |-> "", value |-> s2._scaling_ranges,
                       opened |-> {r.path}, ok |-> TRUE]
    ELSE IF s._scaling_ranges.tag = "unset"
    THEN [self |-> s, exc |-> "AttributeError", value |-> Unset, opened |-> {}, ok |-> FALSE]
    ELSE [self |-> s, exc |-> "", value |-> s._scaling_ranges, opened |-> {}, ok |-> FALSE]

----------------------------------------------------------------------------
(* Batches of embeddings (SpeakerEmbeddings) *)

Omitted == "omitted"   \* a constructor argument that was not passed

\* SpeakerEmbeddings(vec_type=..., device=..., emb_level=...): a new, empty batch
SpeakerEmbeddings(emb_level) ==
    [oid |-> "new", emb_level |-> emb_level, identifiers |-> <<>>, vectors |-> <<>>,
     genders |-> <<>>, speakers |-> <<>>]

\* batch.set_vectors(identifiers=, vectors=, genders=, speakers=)
SetVectors(b, identifiers, vectors, genders, speakers) ==
    [b EXCEPT !.identifiers = identifiers, !.vectors = vectors,
              !.genders = genders, !.speakers = speakers]

\* for identifier, vector in speaker_embeddings: the pairs in the batch's order
Iterate(b) == [i \in 1..Len(b.identifiers) |-> <<b.identifiers[i], b.vectors[i]>>]

InputBatch(ids, vecs, gen, spk) ==
    [oid |-> "in", emb_level |-> "spk", identifiers |-> ids, vectors |-> vecs,
     genders |-> gen, speakers |-> spk]

\* two utterances, D = 1
BatchA == InputBatch(<<"u2", "u1">>, <<<<3>>, <<-2>>>>, <<"f", "m">>, <<"s2", "s1">>)
\* one utterance, D = 2
BatchB == InputBatch(<<"u3">>, <<<<5, -1>>>>, <<"m">>, <<"s3">>)
Batches == {BatchA, BatchB}

NoBatch == SpeakerEmbeddings(Omitted)

MaskValuesInclusive == MaskFrom..MaskTo
\* torch.zeros(n).float().random_(-40, 40): integers from -40, below 40
MaskValues == MaskFrom..(MaskTo - 1)

\* the masks one call can draw: vector.shape[0] values for each vector
MaskDraws(b) == [1..Len(b.vectors) -> [1..Len(b.vectors[1]) -> MaskValues]]

\* anon_vec = vector * mask
MaskVector(vector, mask) == [j \in 1..Len(vector) |-> vector[j] * mask[j]]

\* the input batch after the masking loop: vector * mask allocates, nothing is written
InputAfterMask(b, masks) == b

\* np.random.uniform(lo, hi) on the integer grid
Uniform(lo, hi) == IF lo <= hi THEN lo..hi ELSE hi..lo

\* torch.tensor([np.random.uniform(*dim_range) for dim_range in self.scaling_ranges])
\* in the loop over (identifier, vector): the vectors one draw can give
InScaleVectors(ranges, vector) ==
    {v \in [1..Len(ranges) -> UNION {Uniform(ranges[j][1], ranges[j][2]) : j \in 1..Len(ranges)}] :
        \A j \in 1..Len(ranges) : v[j] \in Uniform(ranges[j][1], ranges[j][2])}

\* the draws of one in-scale call: one vector per pair of the batch
InScaleDraws(ranges, b) ==
    {d \in [1..Len(b.vectors) -> UNION {InScaleVectors(ranges, b.vectors[i]) : i \in 1..Len(b.vectors)}] :
        \A i \in 1..Len(b.vectors) : d[i] \in InScaleVectors(ranges, b.vectors[i])}

IdentifiersReversed(pairs) == [i \in 1..Len(pairs) |-> pairs[Len(pairs) + 1 - i][1]]
\* identifiers.append(identifier), once per pair
Identifiers(pairs) == [i \in 1..Len(pairs) |-> pairs[i][1]]

\* the masking branch of anonymize_embeddings
MaskBranch(b, emb_level, masks) ==
    LET pairs == Iterate(b)
        anon_vectors == [i \in 1..Len(pairs) |-> MaskVector(pairs[i][2], masks[i])]
    IN  SetVectors(SpeakerEmbeddings(emb_level), Identifiers(pairs), anon_vectors,
                   b.genders, b.speakers)

\* _anonymize_data_in_scale(speaker_embeddings): the batch is built without emb_level
AnonymizeDataInScale(b, draws) ==
    LET pairs == Iterate(b)
        anon_vectors == [i \in 1..Len(pairs) |-> draws[i]]
    IN  SetVectors(SpeakerEmbeddings(Omitted), Identifiers(pairs), anon_vectors,
                   b.genders, b.speakers)

----------------------------------------------------------------------------
(* The calls of one caller: each call returns before the next one starts *)

NoRet ==
    [op |-> "none", exc |-> "", value |-> Unset, branch |-> "", out |-> NoBatch,
     arg |-> NoBatch, inp |-> NoBatch, level |-> "", masks |-> <<>>, nreads |-> 0,
     before |-> NewAnonymizer(FALSE, None), src |-> Missing]

NoLoad == [done |-> FALSE, items |-> <<>>, ranges |-> <<>>]

\* what a call that made the accessor result r adds to the counters
Counted(r, n) ==
    /\ opened' = opened \cup r.opened
    /\ loads' = loads + (IF r.ok THEN n ELSE 0)
    /\ loaded' = IF r.ok /\ ~loaded.done
                 THEN [done |-> TRUE, items |-> files[CHOOSE p \in r.opened : TRUE].items,
                       ranges |-> r.value.val]
                 ELSE loaded

Init ==
    /\ ctor \in [in_scale : BOOLEAN, stats_per_dim_path : {None, CfgPath}]
    /\ self = NewAnonymizer(ctor.in_scale, ctor.stats_per_dim_path)
    /\ files \in {[p \in Paths |-> IF p = CfgPath THEN c ELSE OneDimFile] : c \in CfgContents}
    /\ loads = 0
    /\ opened = OpenedByInit
    /\ loaded = NoLoad
    /\ ret = NoRet
    /\ tpc = [t \in Threads |-> "idle"]
    /\ tloc = [t \in Threads |-> [p |-> None, res |-> <<>>]]
    /\ tret = [t \in Threads |-> [exc |-> "", value |-> Unset]]

\* x = anonymizer.scaling_ranges
Access ==
    /\ ret.op = "none"
    /\ LET r == ScalingRangesGet(self, files)
       IN  /\ self' = r.self
           /\ Counted(r, 1)
           /\ ret' = [NoRet EXCEPT !.op = "scaling_ranges", !.exc = r.exc,
                                   !.value = r.value, !.before = self,
                                   !.nreads = Cardinality(r.opened),
                                   !.src = files[CfgPath]]
    /\ UNCHANGED <<ctor, files, tpc, tloc, tret>>

\* anonymizer.anonymize_embeddings(b, emb_level): the test of self.scaling_ranges
\* raises, or selects the in-scale branch, or the masking branch
AnonymizeEmbeddings(b, emb_level) ==
    /\ ret.op = "none"
    /\ LET r == ScalingRangesGet(self, files)
           call == [NoRet EXCEPT !.op = "anonymize_embeddings", !.exc = r.exc,
                                 !.value = r.value,
                                 !.arg = b, !.inp = b, !.level = emb_level,
                                 !.before = self, !.nreads = Cardinality(r.opened),
                                 !.src = files[CfgPath]]
       IN  IF r.exc # ""
           THEN /\ self' = r.self
                /\ Counted(r, 1)
                /\ ret' = call
           ELSE IF Truthy(r.value)
           THEN \* self.scaling_ranges is read again for every vector of the batch
                LET r2 == ScalingRangesGet(r.self, files)
                    n == Len(b.vectors)
                IN  /\ self' = r2.self
                    /\ opened' = opened \cup r.opened \cup r2.opened
                    /\ loads' = loads + (IF r.ok THEN 1 ELSE 0) + (IF r2.ok THEN n ELSE 0)
                    /\ loaded' = IF r.ok /\ ~loaded.done
                                 THEN [done |-> TRUE,
                                       items |-> files[CHOOSE p \in r.opened : TRUE].items,
                                       ranges |-> r.value.val]
                                 ELSE loaded
                    /\ \E draws \in InScaleDraws(r2.value.val, b) :
                         ret' = [call EXCEPT
                                   !.branch = "in_scale",
                                   !.nreads = Cardinality(r.opened) + n * Cardinality(r2.opened),
                                   !.out = AnonymizeDataInScale(b, draws)]
           ELSE /\ self' = r.self
                /\ Counted(r, 1)
                /\ \E masks \in MaskDraws(b) :
                     ret' = [call EXCEPT !.branch = "mask", !.masks = masks,
                                         !.inp = InputAfterMask(b, masks),
                                         !.out = MaskBranch(b, emb_level, masks)]
    /\ UNCHANGED <<ctor, files, tpc, tloc, tret>>

\* the calibration file at the configured path is replaced between two calls
WriteFile(c) ==
    /\ ret.op = "none"
    /\ c # files[CfgPath]
    /\ files' = [files EXCEPT ![CfgPath] = c]
    /\ UNCHANGED <<ctor, self, loads, opened, loaded, ret, tpc, tloc, tret>>

\* the caller is done with what the call returned or raised
Return ==
    /\ ret.op # "none"
    /\ ret' = NoRet
    /\ UNCHANGED <<ctor, self, files, loads, opened, loaded, tpc, tloc, tret>>

Next ==
    \/ Access
    \/ \E b \in Batches, l \in Levels : AnonymizeEmbeddings(b, l)
    \/ \E c \in CfgContents : WriteFile(c)
    \/ Return

Spec == Init /\ [][Next]_vars

----------------------------------------------------------------------------
(* Concurrent first access: every thread reads anonymizer.scaling_ranges   *)
(* once, and a thread switch may fall between any two attribute accesses.  *)

InitConc ==
    /\ ctor = [in_scale |-> TRUE, stats_per_dim_path |-> CfgPath]
    /\ self = NewAnonymizer(ctor.in_scale, ctor.stats_per_dim_path)
    /\ \E c \in {TwoDimFile, OneDimFile}, d \in {Missing, OtherFile} :
         files = [p \in Paths |-> IF p = CfgPath THEN c ELSE d]
    /\ loads = 0
    /\ opened = OpenedByInit
    /\ loaded = NoLoad
    /\ ret = NoRet
    /\ tpc = [t \in Threads |-> "test"]
    /\ tloc = [t \in Threads |-> [p |-> None, res |-> <<>>]]
    /\ tret = [t \in Threads |-> [exc |-> "", value |-> Unset]]

\* if self.stats_per_dim_path is not None:
TTest(t) ==
    /\ tpc[t] = "test"
    /\ tpc' = [tpc EXCEPT ![t] = IF self.stats_per_dim_path # None THEN "arg" ELSE "return"]
    /\ UNCHANGED <<ctor, self, files, loads, opened, loaded, ret, tloc, tret>>

\* the argument stats_per_dim_path=self.stats_per_dim_path is evaluated
TArg(t) ==
    /\ tpc[t] = "arg"
    /\ tloc' = [tloc EXCEPT ![t].p = self.stats_per_dim_path]
    /\ tpc' = [tpc EXCEPT ![t] = "load"]
    /\ UNCHANGED <<ctor, self, files, loads, opened, loaded, ret, tret>>

\* self._load_scaling_ranges(stats_per_dim_path=<the argument>)
TLoad(t) ==
    /\ tpc[t] = "load"
    /\ LET r == LoadScalingRanges(files, tloc[t].p)
       IN  /\ opened' = opened \cup {r.path}
           /\ IF r.exc # ""
              THEN /\ tret' = [tret EXCEPT ![t] = [exc |-> r.exc, value |-> Unset]]
                   /\ tpc' = [tpc EXCEPT ![t] = "raised"]
                   /\ UNCHANGED <<tloc, loads, loaded>>
              ELSE /\ tloc' = [tloc EXCEPT ![t].res = r.val]
                   /\ tpc' = [tpc EXCEPT ![t] = "store"]
                   /\ loads' = loads + 1
                   /\ loaded' = IF ~loaded.done
                                THEN [done |-> TRUE, items |-> files[r.path].items,
                                      ranges |-> r.val]
                                ELSE loaded
                   /\ UNCHANGED tret
    /\ UNCHANGED <<ctor, self, files, ret>>

\* self._scaling_ranges = <the loaded list>
TStore(t) ==
    /\ tpc[t] = "store"
    /\ self' = [self EXCEPT !._scaling_ranges = ListVal(tloc[t].res)]
    /\ tpc' = [tpc EXCEPT ![t] = "clear"]
    /\ UNCHANGED <<ctor, files, loads, opened, loaded, ret, tloc, tret>>

\* self.stats_per_dim_path = None
TClear(t) ==
    /\ tpc[t] = "clear"
    /\ self' = [self EXCEPT !.stats_per_dim_path = None]
    /\ tpc' = [tpc EXCEPT ![t] = "return"]
    /\ UNCHANGED <<ctor, files, loads, opened, loaded, ret, tloc, tret>>

\* return self._scaling_ranges
TReturn(t) ==
    /\ tpc[t] = "return"
    /\ IF self._scaling_ranges.tag = "unset"
       THEN /\ tret' = [tret EXCEPT ![t] = [exc |-> "AttributeError", value |-> Unset]]
            /\ tpc' = [tpc EXCEPT ![t] = "raised"]
       ELSE /\ tret' = [tret EXCEPT ![t] = [exc |-> "", value |-> self._scaling_ranges]]
            /\ tpc' = [tpc EXCEPT ![t] = "done"]
    /\ UNCHANGED <<ctor, self, files, loads, opened, loaded, ret, tloc>>

NextConc ==
    \E t \in Threads :
        \/ TTest(t)
        \/ TArg(t)
        \/ TLoad(t)
        \/ TStore(t)
        \/ TClear(t)
        \/ TReturn(t)

SpecConc == InitConc /\ [][NextConc]_vars

----------------------------------------------------------------------------
(* Properties *)

Calibrated == ctor.in_scale /\ ctor.stats_per_dim_path # None
Called == ret.op # "none"
Anonymized == ret.op = "anonymize_embeddings" /\ ret.exc = ""

\* the error open()/json.load()/v["min"], v["max"] raise on file content f ("": none)
ErrorOf(f) ==
    CASE f.kind = "missing" -> "FileNotFoundError"
      [] f.kind = "malformed" -> "JSONDecodeError"
      [] \E i \in 1..Len(f.items) : ~({"min", "max"} \subseteq DOMAIN f.items[i].v) -> "KeyError"
      [] OTHER -> ""

\* the item of a JSON object whose key is the j-th smallest as a number
ItemOfRank(items, j) ==
    CHOOSE i \in 1..Len(items) :
        Cardinality({k \in 1..Len(items) : IntOf(items[k].key) < IntOf(items[i].key)}) = j - 1

\* the profile a file's items stand for: entries by ascending numeric key
ProfileOf(items) ==
    [j \in 1..Len(items) |->
        <<items[ItemOfRank(items, j)].v.min, items[ItemOfRank(items, j)].v.max>>]

C1_State ==
    Calibrated =>
        /\ loads <= 1
        /\ loads = 1 <=> loaded.done
        /\ loads = 0 => self = NewAnonymizer(TRUE, ctor.stats_per_dim_path)
        /\ loads = 1 => self = [stats_per_dim_path |-> None,
                                _scaling_ranges |-> ListVal(loaded.ranges)]
        /\ Called /\ ret.exc = "" /\ ret.before.stats_per_dim_path # None => ret.nreads = 1
        /\ Called /\ ret.before.stats_per_dim_path = None =>
              /\ ret.nreads = 0
              /\ ret.exc = ""
              /\ ret.value = ListVal(loaded.ranges)

(* C1: in calibrated mode with a path, construction reads no file, the first
   successful scaling_ranges access (direct or through anonymize_embeddings)
   makes exactly one read, every later access makes none and returns the
   profile cached by the first, and at most one load ever succeeds. *)
C1_LazyLoadOnce == (opened = {} /\ loads = 0) /\ []C1_State

\* a later access, after the file was replaced, still returns the first profile
C1_Witness ==
    /\ Calibrated
    /\ ret.op = "scaling_ranges"
    /\ ret.before.stats_per_dim_path = None
    /\ ret.nreads = 0
    /\ loads = 1
    /\ files[CfgPath] = TwoDimFile
    /\ ret.value = ListVal(<<<<-1, 0>>>>)

(* C2: with in_scale and no path, the first access of scaling_ranges loads the
   profile from stats_per_dim.json and anonymization is in scale. *)
C2_DefaultFileLoaded ==
    ctor.in_scale /\ ctor.stats_per_dim_path = None /\ Called =>
        /\ ret.exc = ""
        /\ DefaultPath \in opened
        /\ self._scaling_ranges = ListVal(ProfileOf(files[DefaultPath].items))
        /\ ret.op = "anonymize_embeddings" => ret.branch = "in_scale"

(* C3: every vector of the batch anonymize_embeddings returns has the
   dimensionality of the input's vectors, on both branches. *)
C3_DimensionPreserved ==
    Anonymized =>
        \A i \in 1..Len(ret.out.vectors) :
            Len(ret.out.vectors[i]) = Len(ret.arg.vectors[i])

(* C4: an in-scale call whose profile length differs from the batch's
   dimensionality fails with a ShapeError and returns no batch. *)
C4_ShapeError ==
    /\ ret.op = "anonymize_embeddings"
    /\ Truthy(ret.value)
    /\ Len(ret.value.val) # Len(ret.arg.vectors[1])
    => ret.exc = "ShapeError" /\ ret.out = NoBatch

(* C5: the returned batch has the input's identifiers in the input's order, is
   a new object, carries the input's genders and speakers, and the input batch
   is as it was before the call. *)
C5_IdentifiersAndMetadata ==
    Anonymized =>
        /\ ret.out.identifiers = ret.arg.identifiers
        /\ Len(ret.out.vectors) = Len(ret.arg.identifiers)
        /\ ret.out.oid # ret.arg.oid
        /\ ret.out.genders = ret.arg.genders
        /\ ret.out.speakers = ret.arg.speakers
        /\ ret.inp = ret.arg

C5_Witness ==
    /\ Anonymized
    /\ ret.branch = "in_scale"
    /\ ret.arg = BatchA
    /\ ret.out.identifiers = <<"u2", "u1">>

(* C6: the batch is constructed with the emb_level the call was given, on both
   branches. *)
C6_LevelForwarded == Anonymized => ret.out.emb_level = ret.level

(* C7: in calibrated mode a failing load raises its error to the caller, no
   batch is returned, the pending path and the cache stay as before the call,
   and no call takes the masking branch while no load has succeeded. *)
C7_LoadFailurePropagates ==
    /\ ctor.in_scale /\ Called /\ ret.before.stats_per_dim_path # None
          /\ ErrorOf(ret.src) # "" =>
          /\ ret.exc = ErrorOf(ret.src)
          /\ ret.out = NoBatch
          /\ ret.branch = ""
          /\ ret.value = Unset
          /\ self = ret.before
          /\ self.stats_per_dim_path = ctor.stats_per_dim_path
    /\ ctor.in_scale /\ ~loaded.done => ret.branch = "" /\ ret.out = NoBatch

C7_Witness ==
    /\ Calibrated
    /\ ret.op = "anonymize_embeddings"
    /\ ret.exc = "KeyError"
    /\ self.stats_per_dim_path = CfgPath

(* C8: on the masking branch every output coordinate is the input coordinate
   times the mask drawn for it, every mask is an integer from -40 to 39, and a
   mask of 0 gives 0. *)
C8_Masking ==
    ret.branch = "mask" =>
        \A i \in 1..Len(ret.arg.vectors) :
            /\ Len(ret.masks[i]) = Len(ret.arg.vectors[i])
            /\ \A j \in 1..Len(ret.arg.vectors[i]) :
                /\ ret.masks[i][j] \in -40..39
                /\ ret.out.vectors[i][j] = ret.arg.vectors[i][j] * ret.masks[i][j]
                /\ ret.masks[i][j] = 0 => ret.out.vectors[i][j] = 0

C8_Witness ==
    /\ ret.branch = "mask"
    /\ ret.arg = BatchA
    /\ ret.masks[1][1] = 0
    /\ ret.masks[2][1] = -40
    /\ ret.out.vectors = <<<<0>>, <<80>>>>

(* C9: on the in-scale branch every output coordinate at position j lies in
   [min, max] of the entry whose key is the j-th smallest as a number, and the
   vectors that can be drawn are the same whatever the input vector. *)
C9_InScale ==
    ret.branch = "in_scale" =>
        /\ loaded.done
        /\ \A i \in 1..Len(ret.out.vectors) :
            /\ Len(ret.out.vectors[i]) = Len(loaded.items)
            /\ \A j \in 1..Len(loaded.items) :
                LET e == loaded.items[ItemOfRank(loaded.items, j)].v
                IN  e.min <= ret.out.vectors[i][j] /\ ret.out.vectors[i][j] <= e.max
        /\ \A b \in Batches : \A i \in 1..Len(b.vectors) :
              InScaleVectors(self._scaling_ranges.val, b.vectors[i])
                  = InScaleVectors(self._scaling_ranges.val, <<>>)

\* keys "10" and "2": position 1 is drawn from the range of "2", above the input
C9_Witness ==
    /\ ret.branch = "in_scale"
    /\ loaded.items = TwoDimFile.items
    /\ ret.arg = BatchB
    /\ ret.out.vectors = <<<<4, 1>>>>

(* C10: under every interleaving of concurrent first accesses, every load reads
   the configured path, no accessor fails or returns an absent profile, and the
   cache ends as the profile of the configured file. *)
C10_RedundantLoadsHarmless ==
    /\ opened \subseteq {CfgPath}
    /\ \A t \in Threads :
          /\ tpc[t] # "raised"
          /\ tpc[t] = "done" => tret[t].value = ListVal(ProfileOf(files[CfgPath].items))
    /\ (\A t \in Threads : tpc[t] = "done") =>
          self._scaling_ranges = ListVal(ProfileOf(files[CfgPath].items))

====
